---- MODULE Spec2Model ----
(***************************************************************************)
(* Model of k8s_test_harness.util: the stubborn poller behind the waiters  *)
(* of k8s_util.py, the waiters themselves, the helm command builder, and   *)
(* the overlay2 layer resolver of docker_util.py.                          *)
(*                                                                         *)
(* Strings the code splits, joins or formats are sequences of atoms (TLA+  *)
(* strings that the code never looks inside); a command line is a          *)
(* sequence of such strings.                                               *)
(***************************************************************************)
EXTENDS Integers, Sequences, FiniteSets, TLC

VARIABLES
    \* ---- stubborn poller (exec_util.stubbornly(...).on(...).until(...).exec)
    poll_pc,            \* "idle" | "invoke" | "sleep" | "returned" | "exhausted"
    poll_max,           \* policy: maxAttempts
    poll_delay,         \* policy: delay between attempts, seconds
    poll_until,         \* "none" (no predicate given) | "ready"
    poll_invocations,   \* action invocations of the running poll
    poll_delays,        \* inter-attempt delays of the running poll
    poll_last,          \* outcome of the latest attempt
    poll_result,        \* what the poll returned
    poll_failure,       \* what RetryExhausted carries
    hist,               \* outcomes of the running poll, attempt by attempt
    \* ---- wait_until_k8s_ready
    instances, r_pc, r_i, r_host, r_result, r_error, r_polled,
    \* ---- wait_for_resource / wait_for_deployment / _daemonset / _statefulset
    w_pc, w_waiter, w_args, w_cmd, w_described, w_exc, w_outcome,
    \* ---- get_helm_install_command
    h_args, h_cmd,
    \* ---- _check_path_in_layers
    q_path, q_layers, q_out,
    \* ---- ensure_image_contains_paths_bare
    e_pc, e_paths, e_driver, e_lower, e_layers, e_fs, e_i, e_checked, e_error,
    e_pulls, e_inspects

pollVars == <<poll_pc, poll_max, poll_delay, poll_until, poll_invocations,
              poll_delays, poll_last, poll_result, poll_failure>>
readyVars == <<instances, r_pc, r_i, r_host, r_result, r_error, r_polled>>
waitVars == <<w_pc, w_waiter, w_args, w_cmd, w_described, w_exc, w_outcome>>
helmVars == <<h_args, h_cmd>>
queryVars == <<q_path, q_layers, q_out>>
ensureVars == <<e_pc, e_paths, e_driver, e_lower, e_layers, e_fs, e_i,
                e_checked, e_error, e_pulls, e_inspects>>
vars == <<pollVars, hist, readyVars, waitVars, helmVars, queryVars, ensureVars>>

(***************************************************************************)
(* Bounds of the model.                                                    *)
(***************************************************************************)
MaxAttempts == 4
MaxInstances == 2
MaxLayers == 2
MaxPaths == 2
MaxSetConfigs == 2
MaxImages == 1

(***************************************************************************)
(* Generic sequence helpers.                                               *)
(***************************************************************************)
SeqsUpTo(S, n) == UNION {[1..k -> S] : k \in 0..n}

RECURSIVE Flatten(_)
Flatten(ss) == IF ss = <<>> THEN <<>> ELSE Head(ss) \o Flatten(Tail(ss))

(***************************************************************************)
(* The stubborn poller.  An attempt's outcome is what instance.exec gave:  *)
(* it raised ("error") or returned a process result ("ok") with a stdout.  *)
(***************************************************************************)
None == [idx |-> 0, kind |-> "none", stdout |-> <<>>]

\* What `kubectl get node <host> --no-headers` prints: the node's name, then
\* blank-separated columns, the status first.
StdoutTexts == {<<"node", " ", "NotReady", " ", "control-plane">>,
                <<"node", " ", "Ready", " ", "control-plane">>}

ExecOutcomes == {[kind |-> "error", stdout |-> <<>>]}
                \cup {[kind |-> "ok", stdout |-> s] : s \in StdoutTexts}

\* lambda p: " Ready" in p.stdout.decode()
HasReadyMarker(stdout) ==
    \E i \in 1..(Len(stdout) - 1) : stdout[i] = " " /\ stdout[i + 1] = "Ready"

\* The predicate is evaluated on a successful result only; with no
\* predicate given every successful result satisfies.
Satisfied(until, out) ==
    /\ out.kind = "ok"
    /\ (until = "ready" => HasReadyMarker(out.stdout))

PollAfterAttempt_DelayBeforeCheck(sat, k, n) ==
    IF k < n THEN "sleep" ELSE IF sat THEN "returned" ELSE "exhausted"

PollAfterAttempt_DelayAfterLast(sat, k, n) ==
    IF sat THEN "returned" ELSE IF k <= n THEN "sleep" ELSE "exhausted"

\* Where the loop goes after attempt k of n.
PollAfterAttempt(sat, k, n) ==
    IF sat THEN "returned" ELSE IF k < n THEN "sleep" ELSE "exhausted"

PollStart(n, d, u) ==
    /\ poll_pc' = "invoke"
    /\ poll_max' = n
    /\ poll_delay' = d
    /\ poll_until' = u
    /\ poll_invocations' = 0
    /\ poll_delays' = 0
    /\ poll_last' = None
    /\ poll_result' = None
    /\ poll_failure' = None

PollAttemptOutcome(o) == [idx |-> poll_invocations + 1, kind |-> o.kind, stdout |-> o.stdout]

PollInvoke(o) ==
    /\ poll_pc = "invoke"
    /\ LET k == poll_invocations + 1
           out == PollAttemptOutcome(o)
           to == PollAfterAttempt(Satisfied(poll_until, out), k, poll_max)
       IN /\ poll_invocations' = k
          /\ poll_last' = out
          /\ poll_pc' = to
          /\ poll_result' = IF to = "returned" THEN out ELSE poll_result
          /\ poll_failure' = IF to = "exhausted" THEN out ELSE poll_failure
    /\ UNCHANGED <<poll_max, poll_delay, poll_until, poll_delays>>

PollSleep ==
    /\ poll_pc = "sleep"
    /\ poll_delays' = poll_delays + 1
    /\ poll_pc' = "invoke"
    /\ UNCHANGED <<poll_max, poll_delay, poll_until, poll_invocations,
                   poll_last, poll_result, poll_failure>>

PollInit ==
    /\ poll_pc = "idle"
    /\ poll_max = 1
    /\ poll_delay = 0
    /\ poll_until = "none"
    /\ poll_invocations = 0
    /\ poll_delays = 0
    /\ poll_last = None
    /\ poll_result = None
    /\ poll_failure = None

(***************************************************************************)
(* Idle values of the components a specification does not run.             *)
(***************************************************************************)
ReadyIdle ==
    /\ instances = <<>>
    /\ r_pc = "idle"
    /\ r_i = 0
    /\ r_host = ""
    /\ r_result = None
    /\ r_error = "none"
    /\ r_polled = <<>>

WaitIdle ==
    /\ w_pc = "idle"
    /\ w_waiter = "none"
    /\ w_args = [retry_times |-> 0, retry_delay_s |-> 0, want_timeout |-> 0]
    /\ w_cmd = <<>>
    /\ w_described = <<>>
    /\ w_exc = "none"
    /\ w_outcome = "none"

HelmIdle ==
    /\ h_args = <<>>
    /\ h_cmd = <<>>

QueryIdle ==
    /\ q_path = <<>>
    /\ q_layers = <<>>
    /\ q_out = "none"

EnsureIdle ==
    /\ e_pc = "idle"
    /\ e_paths = <<>>
    /\ e_driver = "none"
    /\ e_lower = <<>>
    /\ e_layers = <<>>
    /\ e_fs = <<>>
    /\ e_i = 0
    /\ e_checked = <<>>
    /\ e_error = [kind |-> "none", msg |-> "", path |-> <<>>]
    /\ e_pulls = 0
    /\ e_inspects = 0

(***************************************************************************)
(* SpecPoll: the poller on its own, under every policy up to MaxAttempts   *)
(* and every sequence of attempt outcomes.                                 *)
(***************************************************************************)
PollDelays == {0, 5, 60}

PollCall ==
    /\ poll_pc \in {"idle", "returned", "exhausted"}
    /\ \E n \in 1..MaxAttempts, d \in PollDelays, u \in {"none", "ready"} :
           PollStart(n, d, u)
    /\ hist' = <<>>
    /\ UNCHANGED <<readyVars, waitVars, helmVars, queryVars, ensureVars>>

PollAttempt ==
    /\ \E o \in ExecOutcomes :
           /\ PollInvoke(o)
           /\ hist' = Append(hist, PollAttemptOutcome(o))
    /\ UNCHANGED <<readyVars, waitVars, helmVars, queryVars, ensureVars>>

PollDelay ==
    /\ PollSleep
    /\ UNCHANGED <<hist, readyVars, waitVars, helmVars, queryVars, ensureVars>>

InitPoll ==
    /\ PollInit /\ hist = <<>>
    /\ ReadyIdle /\ WaitIdle /\ HelmIdle /\ QueryIdle /\ EnsureIdle

NextPoll == PollCall \/ PollAttempt \/ PollDelay

SpecPoll == InitPoll /\ [][NextPoll]_vars

FirstSatisfying(k) ==
    /\ k \in 1..Len(hist)
    /\ Satisfied(poll_until, hist[k])
    /\ \A j \in 1..(k - 1) : ~Satisfied(poll_until, hist[j])

(***************************************************************************)
(* C1: whenever attempt k is the first attempt of the running poll whose   *)
(* action succeeded with a result satisfying the predicate, the poll has   *)
(* returned that attempt's result after exactly k invocations and k-1      *)
(* delays, with k within maxAttempts, and nothing was invoked or slept     *)
(* after it (attempt k is the last entry of the history).                  *)
(***************************************************************************)
C1_ReturnsAtFirstSatisfying ==
    \A k \in 1..Len(hist) :
        FirstSatisfying(k) =>
            /\ poll_pc = "returned"
            /\ poll_result = hist[k]
            /\ hist[k].idx = k
            /\ Len(hist) = k
            /\ poll_invocations = k
            /\ poll_delays = k - 1
            /\ k <= poll_max

C1_Witness ==
    /\ poll_pc = "returned"
    /\ poll_max = 4
    /\ poll_until = "ready"
    /\ Len(hist) = 3
    /\ hist[1].kind = "error"
    /\ hist[2].kind = "ok" /\ ~HasReadyMarker(hist[2].stdout)
    /\ FirstSatisfying(3)

NoneSatisfied == \A j \in 1..Len(hist) : ~Satisfied(poll_until, hist[j])

(***************************************************************************)
(* C2: when all n = maxAttempts attempts were made and none both succeeded *)
(* and satisfied the predicate, the poll has ended in RetryExhausted after *)
(* exactly n invocations and n-1 delays, carrying attempt n's result or    *)
(* error; and RetryExhausted arises in no other way.                       *)
(***************************************************************************)
C2_ExhaustedAfterAllAttempts ==
    /\ (Len(hist) = poll_max /\ NoneSatisfied) =>
            /\ poll_pc = "exhausted"
            /\ poll_invocations = poll_max
            /\ poll_delays = poll_max - 1
            /\ poll_failure = hist[poll_max]
            /\ poll_failure.idx = poll_max
    /\ poll_pc = "exhausted" => (Len(hist) = poll_max /\ NoneSatisfied)
    /\ Len(hist) <= poll_max

C2_Witness ==
    /\ poll_pc = "exhausted"
    /\ poll_max = 3
    /\ poll_until = "ready"
    /\ hist[1].kind = "error"
    /\ hist[2].kind = "ok"
    /\ poll_failure.idx = 3
    /\ poll_failure.kind = "ok" /\ ~HasReadyMarker(poll_failure.stdout)
    /\ poll_delays = 2

(***************************************************************************)
(* wait_until_k8s_ready(control_node, instances).                          *)
(*                                                                         *)
(* r_result is the function's local `result`; None stands for the name     *)
(* not being bound yet.  r_polled logs the polls in the order they were    *)
(* started: the instance, the command, where it ran, the policy, and how   *)
(* the poll ended.                                                         *)
(***************************************************************************)
ReadyRetries == 120
ReadyDelay == 5

InstanceIds == {"n1", "n2"}

\* hostname(instance): the stripped stdout of `hostname` on the instance.
Hostname(inst) == IF inst = "n1" THEN "host-n1" ELSE "host-n2"

GetNodeCommand(host) == <<"k8s", "kubectl", "get", "node", host, "--no-headers">>

\* Lines 78-79 after the loop: result.stdout is read, which raises
\* UnboundLocalError when the loop body never ran.
ReadyAfterLoop(result) == IF result = None THEN "raised" ELSE "returned"

ReadyCallHostname ==
    /\ r_pc = "loop"
    /\ r_i <= Len(instances)
    /\ \/ /\ r_host' = Hostname(instances[r_i])
          /\ r_pc' = "polling"
          /\ PollStart(ReadyRetries, ReadyDelay, "ready")
          /\ r_polled' = Append(r_polled,
                 [inst |-> instances[r_i],
                  cmd |-> GetNodeCommand(Hostname(instances[r_i])),
                  on |-> "control_node",
                  retries |-> ReadyRetries, delay |-> ReadyDelay,
                  end |-> "running"])
          /\ UNCHANGED r_error
       \/ \* instance.exec(["hostname"]) raised
          /\ r_pc' = "raised"
          /\ r_error' = "CalledProcessError"
          /\ UNCHANGED <<r_host, r_polled, pollVars>>
    /\ UNCHANGED <<instances, r_i, r_result, hist>>
    /\ UNCHANGED <<waitVars, helmVars, queryVars, ensureVars>>

ReadyPollAttempt ==
    /\ r_pc = "polling"
    /\ \E o \in ExecOutcomes : PollInvoke(o)
    /\ UNCHANGED <<hist, readyVars, waitVars, helmVars, queryVars, ensureVars>>

ReadyPollDelay ==
    /\ r_pc = "polling"
    /\ PollSleep
    /\ UNCHANGED <<hist, readyVars, waitVars, helmVars, queryVars, ensureVars>>

ReadyPollReturned ==
    /\ r_pc = "polling"
    /\ poll_pc = "returned"
    /\ r_result' = poll_result
    /\ r_polled' = [r_polled EXCEPT ![Len(r_polled)].end = "satisfied"]
    /\ r_i' = r_i + 1
    /\ r_pc' = "loop"
    /\ UNCHANGED <<instances, r_host, r_error, pollVars, hist>>
    /\ UNCHANGED <<waitVars, helmVars, queryVars, ensureVars>>

ReadyPollExhausted ==
    /\ r_pc = "polling"
    /\ poll_pc = "exhausted"
    /\ r_polled' = [r_polled EXCEPT ![Len(r_polled)].end = "exhausted"]
    /\ r_pc' = "raised"
    /\ r_error' = "RetryExhausted"
    /\ UNCHANGED <<instances, r_i, r_host, r_result, pollVars, hist>>
    /\ UNCHANGED <<waitVars, helmVars, queryVars, ensureVars>>

ReadyLoopEnd ==
    /\ r_pc = "loop"
    /\ r_i > Len(instances)
    /\ r_pc' = ReadyAfterLoop(r_result)
    /\ r_error' = IF ReadyAfterLoop(r_result) = "raised"
                  THEN "UnboundLocalError" ELSE r_error
    /\ UNCHANGED <<instances, r_i, r_host, r_result, r_polled, pollVars, hist>>
    /\ UNCHANGED <<waitVars, helmVars, queryVars, ensureVars>>

InitReady ==
    /\ PollInit /\ hist = <<>>
    /\ instances \in SeqsUpTo(InstanceIds, MaxInstances)
    /\ r_pc = "loop"
    /\ r_i = 1
    /\ r_host = ""
    /\ r_result = None
    /\ r_error = "none"
    /\ r_polled = <<>>
    /\ WaitIdle /\ HelmIdle /\ QueryIdle /\ EnsureIdle

NextReady ==
    \/ ReadyCallHostname
    \/ ReadyPollAttempt
    \/ ReadyPollDelay
    \/ ReadyPollReturned
    \/ ReadyPollExhausted
    \/ ReadyLoopEnd

SpecReady == InitReady /\ [][NextReady]_vars

ReadyPolledInOrder ==
    /\ Len(r_polled) <= Len(instances)
    /\ \A j \in 1..Len(r_polled) :
          /\ r_polled[j].inst = instances[j]
          /\ r_polled[j].cmd = GetNodeCommand(Hostname(instances[j]))
          /\ r_polled[j].on = "control_node"
          /\ r_polled[j].retries = 120
          /\ r_polled[j].delay = 5
          /\ (j < Len(r_polled) => r_polled[j].end = "satisfied")

ReadyAllSatisfied ==
    /\ Len(r_polled) = Len(instances)
    /\ \A j \in 1..Len(r_polled) : r_polled[j].end = "satisfied"

(***************************************************************************)
(* C9: for every list of instances, the empty list included, the nodes are *)
(* polled one at a time in list order on the control node with the policy  *)
(* (120 attempts, 5 s); a poll starts only after all earlier polls were    *)
(* satisfied; the call returns normally iff every instance's poll was      *)
(* satisfied; an exhausted poll propagates RetryExhausted and is the last. *)
(***************************************************************************)
C9_ReadyPollsEachInstanceInOrder ==
    /\ ReadyPolledInOrder
    /\ r_pc = "returned" => ReadyAllSatisfied
    /\ (r_pc \in {"returned", "raised"} /\ ReadyAllSatisfied) => r_pc = "returned"
    /\ (Len(r_polled) > 0 /\ r_polled[Len(r_polled)].end = "exhausted") =>
           (r_pc = "raised" /\ r_error = "RetryExhausted")

\* The same statement for non-empty lists only.
C9_NonEmptyOnly == instances # <<>> => C9_ReadyPollsEachInstanceInOrder

(***************************************************************************)
(* wait_for_resource and the decorated waiters wait_for_deployment,        *)
(* wait_for_daemonset, wait_for_statefulset.                               *)
(*                                                                         *)
(* w_args are the caller's keyword arguments; want_timeout is the          *)
(* per-attempt timeout the caller would like the command to use, for       *)
(* which none of the four signatures has a parameter.                      *)
(***************************************************************************)
DefaultRetryTimes == 5
DefaultRetryDelay == 60

Waiters == {"wait_for_resource", "wait_for_deployment",
            "wait_for_daemonset", "wait_for_statefulset"}

RetryTimesChoices == {1, 2, DefaultRetryTimes}
RetryDelayChoices == {10, DefaultRetryDelay}
TimeoutChoices == {"1s", "2s"}

PerAttemptTimeout_FromDelay(args) ==
    IF args.retry_delay_s = DefaultRetryDelay THEN "60s" ELSE "10s"

\* "--timeout", "1s": a literal in each of the three command lists.
PerAttemptTimeout(args) == "1s"

WaitResourceCommand(resource_type, args) ==
    <<"k8s", "kubectl", "wait", "--namespace", "K8S_NS_DEFAULT",
      "--for=condition=K8S_CONDITION_AVAILABLE", resource_type, "name",
      "--timeout", PerAttemptTimeout(args)>>

RolloutStatusCommand(resource_type, args) ==
    <<"k8s", "kubectl", "rollout", "status", "--namespace", "K8S_NS_DEFAULT",
      resource_type, "name", "--timeout", PerAttemptTimeout(args)>>

WaiterCommand(w, args) ==
    CASE w = "wait_for_resource" -> WaitResourceCommand("resource_type", args)
      [] w = "wait_for_deployment" -> WaitResourceCommand("K8S_DEPLOYMENT", args)
      [] w = "wait_for_daemonset" -> RolloutStatusCommand("K8S_DAEMONSET", args)
      [] w = "wait_for_statefulset" -> RolloutStatusCommand("K8S_STATEFULSET", args)

\* The describe_resources_on_error wrappers of a waiter, innermost first:
\* the decorator written nearest the def wraps the function first.
Decorators(w) ==
    CASE w = "wait_for_resource" -> <<>>
      [] w = "wait_for_deployment" -> <<"deployment", "pods">>
      [] w = "wait_for_daemonset" -> <<"daemonsets", "pods">>
      [] w = "wait_for_statefulset" -> <<"statefulsets", "pods">>

DescribeCommand(resource_type) ==
    <<"k8s", "kubectl", "describe", "-A", resource_type>>

TimeoutOf(cmd) == cmd[Len(cmd)]

WaitStart ==
    /\ w_pc = "start"
    /\ w_cmd' = WaiterCommand(w_waiter, w_args)
    /\ PollStart(w_args.retry_times, w_args.retry_delay_s, "none")
    /\ w_pc' = "polling"
    /\ UNCHANGED <<w_waiter, w_args, w_described, w_exc, w_outcome, hist>>
    /\ UNCHANGED <<readyVars, helmVars, queryVars, ensureVars>>

WaitPollAttempt ==
    /\ w_pc = "polling"
    /\ \E o \in ExecOutcomes : PollInvoke(o)
    /\ UNCHANGED <<hist, readyVars, waitVars, helmVars, queryVars, ensureVars>>

WaitPollDelay ==
    /\ w_pc = "polling"
    /\ PollSleep
    /\ UNCHANGED <<hist, readyVars, waitVars, helmVars, queryVars, ensureVars>>

\* The waiter returns None, and so does every wrapper around it.
WaitPollReturned ==
    /\ w_pc = "polling"
    /\ poll_pc = "returned"
    /\ w_pc' = "returned"
    /\ w_outcome' = "None"
    /\ UNCHANGED <<w_waiter, w_args, w_cmd, w_described, w_exc, pollVars, hist>>
    /\ UNCHANGED <<readyVars, helmVars, queryVars, ensureVars>>

\* RetryExhausted leaves the waiter and meets the innermost wrapper, if any.
WaitPollExhausted ==
    /\ w_pc = "polling"
    /\ poll_pc = "exhausted"
    /\ w_exc' = "RetryExhausted"
    /\ IF Decorators(w_waiter) = <<>>
       THEN w_pc' = "raised" /\ w_outcome' = "RetryExhausted"
       ELSE w_pc' = "describe" /\ UNCHANGED w_outcome
    /\ UNCHANGED <<w_waiter, w_args, w_cmd, w_described, pollVars, hist>>
    /\ UNCHANGED <<readyVars, helmVars, queryVars, ensureVars>>

\* One wrapper's except block: instance.exec of the describe command, which
\* returns (then the caught exception is re-raised) or itself raises (then
\* that exception leaves the block instead).
WaitDescribe ==
    /\ w_pc = "describe"
    /\ LET j == Len(w_described) + 1
           rt == Decorators(w_waiter)[j]
       IN /\ w_described' = Append(w_described, DescribeCommand(rt))
          /\ \E ok \in BOOLEAN :
                w_exc' = IF ok THEN w_exc ELSE "CalledProcessError"
          /\ IF j = Len(Decorators(w_waiter))
             THEN w_pc' = "raised" /\ w_outcome' = w_exc'
             ELSE w_pc' = "describe" /\ UNCHANGED w_outcome
    /\ UNCHANGED <<w_waiter, w_args, w_cmd, pollVars, hist>>
    /\ UNCHANGED <<readyVars, helmVars, queryVars, ensureVars>>

InitWait ==
    /\ PollInit /\ hist = <<>>
    /\ w_pc = "start"
    /\ w_waiter \in Waiters
    /\ w_args \in [retry_times : RetryTimesChoices,
                   retry_delay_s : RetryDelayChoices,
                   want_timeout : TimeoutChoices]
    /\ w_cmd = <<>>
    /\ w_described = <<>>
    /\ w_exc = "none"
    /\ w_outcome = "none"
    /\ ReadyIdle /\ HelmIdle /\ QueryIdle /\ EnsureIdle

NextWait ==
    \/ WaitStart
    \/ WaitPollAttempt
    \/ WaitPollDelay
    \/ WaitPollReturned
    \/ WaitPollExhausted
    \/ WaitDescribe

SpecWait == InitWait /\ [][NextWait]_vars

(***************************************************************************)
(* C7, as claimed: in every waiter call the command's per-attempt timeout  *)
(* is the one the caller asked for and the poller's delay is the one the   *)
(* caller asked for, each settable without regard to the other.            *)
(***************************************************************************)
C7_BothConfigurable ==
    w_pc \notin {"idle", "start"} =>
        /\ TimeoutOf(w_cmd) = w_args.want_timeout
        /\ poll_delay = w_args.retry_delay_s

(***************************************************************************)
(* C7, amended: the poller's delay and attempt count are the caller's      *)
(* retry_delay_s and retry_times; the per-attempt timeout is the fixed     *)
(* "--timeout 1s" whatever the caller passes or wants, so it is            *)
(* independent of the delay but not configurable.                          *)
(***************************************************************************)
C7_DelayConfigurableTimeoutFixed ==
    w_pc \notin {"idle", "start"} =>
        /\ w_cmd[Len(w_cmd) - 1] = "--timeout"
        /\ TimeoutOf(w_cmd) = "1s"
        /\ poll_delay = w_args.retry_delay_s
        /\ poll_max = w_args.retry_times

C7_Witness ==
    /\ w_pc = "polling"
    /\ w_waiter = "wait_for_daemonset"
    /\ w_args.retry_delay_s = 10
    /\ w_args.want_timeout = "2s"
    /\ poll_delay = 10
    /\ poll_delays = 1
    /\ TimeoutOf(w_cmd) = "1s"

OwnResourceType(w) ==
    CASE w = "wait_for_deployment" -> "deployment"
      [] w = "wait_for_daemonset" -> "daemonsets"
      [] w = "wait_for_statefulset" -> "statefulsets"
      [] OTHER -> "none"

(***************************************************************************)
(* C10: a decorated waiter that fails has issued exactly one describe of   *)
(* its own resource type and then exactly one describe of pods, and the    *)
(* caller gets the waiter's own failure; one that succeeds has issued no   *)
(* describe and returns the waiter's result.                               *)
(***************************************************************************)
C10_DescribeThenOriginalFailure ==
    w_waiter \in Waiters \ {"wait_for_resource"} =>
        /\ w_pc = "raised" =>
              /\ w_described = <<DescribeCommand(OwnResourceType(w_waiter)),
                                 DescribeCommand("pods")>>
              /\ w_outcome = "RetryExhausted"
        /\ w_pc = "returned" =>
              /\ w_described = <<>>
              /\ w_outcome = "None"

\* The part of the statement that does not depend on the describe commands
\* succeeding: which commands are issued, and in which order.
C10_DescribeOrderOnly ==
    w_waiter \in Waiters \ {"wait_for_resource"} =>
        /\ w_pc = "raised" =>
              w_described = <<DescribeCommand(OwnResourceType(w_waiter)),
                              DescribeCommand("pods")>>
        /\ w_pc = "returned" => (w_described = <<>> /\ w_outcome = "None")

(***************************************************************************)
(* get_helm_install_command.                                               *)
(*                                                                         *)
(* A string is a sequence of atoms; str.split and str.join work on the     *)
(* separator atoms ":" and "/".  An optional argument is a record          *)
(* [given, v]: given = FALSE is Python's None.                             *)
(***************************************************************************)
DefaultRunAsUser == 584792

Str(a) == <<a>>

NoneArg == [given |-> FALSE, v |-> <<>>]
Some(x) == [given |-> TRUE, v |-> x]

\* `x or []`, and the truth value of `if x:` for an optional string.
OrEmpty(opt) == IF opt.given THEN opt.v ELSE <<>>
Truthy(opt) == opt.given /\ opt.v # <<>>

\* str.split(sep): the pieces between the occurrences of sep, at least one.
RECURSIVE Split(_, _)
Split(str, sep) ==
    IF str = <<>> THEN << <<>> >>
    ELSE LET rest == Split(Tail(str), sep)
         IN IF Head(str) = sep
            THEN << <<>> >> \o rest
            ELSE << <<Head(str)>> \o Head(rest) >> \o Tail(rest)

\* sep.join(parts)
RECURSIVE Join(_, _)
Join(parts, sep) ==
    IF parts = <<>> THEN <<>>
    ELSE IF Len(parts) = 1 THEN Head(parts)
    ELSE Head(parts) \o <<sep>> \o Join(Tail(parts), sep)

Repeat(x, n) == [i \in 1..n |-> x]

PyNone == <<"None">>

\* itertools.zip_longest(a, b): pairs up to the longer length, None-filled.
ZipLongest(a, b) ==
    LET n == IF Len(a) >= Len(b) THEN Len(a) ELSE Len(b)
    IN [i \in 1..n |-> << IF i <= Len(a) THEN a[i] ELSE PyNone,
                          IF i <= Len(b) THEN b[i] ELSE PyNone >>]

SetMarker == Str("--set")

SetConfigPairs_SingleMarker(set_configs) ==
    Flatten(ZipLongest(<<SetMarker>>, set_configs))

\* Lines 339-340: pair each configuration with a "--set" and chain the pairs.
SetConfigPairs(set_configs) ==
    Flatten(ZipLongest(Repeat(SetMarker, Len(set_configs)), set_configs))

\* f"{image.prefix}." / f"{image.subitem}." when set and non-empty, else "".
Dotted(opt) == IF Truthy(opt) THEN opt.v \o <<".">> ELSE <<>>

\* The "--set" tokens one image adds (lines 305-336), for an image whose uri
\* has a ":".
ImageSettings(image, runAsUser, split_image_registry) ==
    LET image_split == Split(image.uri, ":")
        prefix == Dotted(image.prefix)
        subitem == Dotted(image.subitem)
        parts == Split(image_split[1], "/")
        registry == IF Len(parts) > 2 THEN parts[1] ELSE Str("docker.io")
        image_name == IF split_image_registry /\ Len(parts) > 2
                      THEN Join(Tail(parts), "/")
                      ELSE image_split[1]
    IN (IF split_image_registry
        THEN <<SetMarker,
               prefix \o <<"image.">> \o subitem \o <<"registry=">> \o registry>>
        ELSE <<>>)
       \o <<SetMarker,
            prefix \o <<"image.">> \o subitem \o <<"repository=">> \o image_name,
            SetMarker,
            prefix \o <<"image.">> \o subitem \o <<"tag=">> \o image_split[2],
            SetMarker,
            prefix \o <<"securityContext.runAsUser=">> \o Str(ToString(runAsUser))>>

\* image_split[1] raises IndexError for a uri without ":".
HasTag(image) == Len(Split(image.uri, ":")) >= 2

HelmBase(a) ==
    <<Str("k8s"), Str("helm"), Str("install"), a.name, a.chart_name,
      Str("--namespace"), a.namespace, Str("--create-namespace")>>
    \o (IF Truthy(a.repository) THEN <<Str("--repo"), a.repository.v>> ELSE <<>>)
    \o (IF Truthy(a.chart_version)
        THEN <<Str("--version"), a.chart_version.v>> ELSE <<>>)

get_helm_install_command(a) ==
    LET images == OrEmpty(a.images)
        set_configs == OrEmpty(a.set_configs)
    IN IF \E i \in 1..Len(images) : ~HasTag(images[i])
       THEN [status |-> "IndexError", cmd |-> <<>>]
       ELSE [status |-> "returned",
             cmd |-> HelmBase(a)
                     \o Flatten([i \in 1..Len(images) |->
                            ImageSettings(images[i], a.runAsUser,
                                          a.split_image_registry)])
                     \o SetConfigPairs(set_configs)]

ImageUris == { <<"ghcr.io", "/", "org", "/", "img", ":", "1.0">>,
               <<"org", "/", "img", ":", "2.0">>,
               <<"img">> }

ImageChoices ==
    {[uri |-> u, prefix |-> NoneArg, subitem |-> NoneArg] : u \in ImageUris}
    \cup {[uri |-> <<"org", "/", "img", ":", "2.0">>,
           prefix |-> Some(Str("controller")), subitem |-> Some(Str("sidecar"))]}

RawSettings == {Str("a=1"), Str("b.c=2"), SetMarker}

HelmArgs ==
    [name : {Str("rel")},
     chart_name : {Str("chart")},
     namespace : {Str("K8S_NS_KUBE_SYSTEM")},
     repository : {NoneArg, Some(Str("https://charts"))},
     chart_version : {NoneArg, Some(Str("1.2.3"))},
     images : {NoneArg} \cup {Some(x) : x \in SeqsUpTo(ImageChoices, MaxImages)},
     runAsUser : {DefaultRunAsUser},
     set_configs : {NoneArg} \cup {Some(x) : x \in SeqsUpTo(RawSettings, MaxSetConfigs)},
     split_image_registry : BOOLEAN]

HelmCall ==
    /\ h_cmd = <<>>
    /\ h_cmd' = get_helm_install_command(h_args)
    /\ UNCHANGED <<h_args, pollVars, hist, readyVars, waitVars, queryVars, ensureVars>>

InitHelm ==
    /\ h_args \in HelmArgs
    /\ h_cmd = <<>>
    /\ PollInit /\ hist = <<>>
    /\ ReadyIdle /\ WaitIdle /\ QueryIdle /\ EnsureIdle

NextHelm == HelmCall

SpecHelm == InitHelm /\ [][NextHelm]_vars

HelmReturned == h_cmd # <<>> /\ h_cmd.status = "returned"

HelmLenWithoutSettings(a) ==
    8 + (IF Truthy(a.repository) THEN 2 ELSE 0)
      + (IF Truthy(a.chart_version) THEN 2 ELSE 0)
      + Len(OrEmpty(a.images)) * (IF a.split_image_registry THEN 8 ELSE 6)

(***************************************************************************)
(* C8: the returned command ends with, for each raw setting in input       *)
(* order, "--set" followed by the setting verbatim; before these 2n        *)
(* tokens stands exactly the command without raw settings (the base        *)
(* tokens and then 6 or 8 tokens per image), so an empty or omitted        *)
(* set_configs adds nothing.                                               *)
(***************************************************************************)
C8_RawSettingsAppendedInOrder ==
    HelmReturned =>
        LET cfgs == OrEmpty(h_args.set_configs)
            n == Len(cfgs)
            cmd == h_cmd.cmd
            base == Len(cmd) - 2 * n
        IN /\ base = HelmLenWithoutSettings(h_args)
           /\ \A i \in 1..n :
                 /\ cmd[base + 2 * i - 1] = <<"--set">>
                 /\ cmd[base + 2 * i] = cfgs[i]

C8_Witness ==
    /\ HelmReturned
    /\ h_args.set_configs = Some(<<Str("b.c=2"), Str("a=1")>>)
    /\ h_args.images.given /\ Len(h_args.images.v) = 1
    /\ h_args.split_image_registry
    /\ Len(h_cmd.cmd) = 8 + 8 + 4
    /\ h_cmd.cmd[16] = <<"securityContext.runAsUser=", "584792">>
    /\ SubSeq(h_cmd.cmd, 17, 20) = <<Str("--set"), Str("b.c=2"), Str("--set"), Str("a=1")>>

(***************************************************************************)
(* _check_path_in_layers(path, layers).                                    *)
(*                                                                         *)
(* A layer is the directory tree under its root: a function from the       *)
(* locations of the tree to what os.lstat finds there.  A location has an  *)
(* entry only if its parent is a directory.  os.lstat of a location gives  *)
(* the entry, raises FileNotFoundError (ENOENT) when the entry or one of   *)
(* its parents is missing, and raises NotADirectoryError (ENOTDIR) when a  *)
(* parent exists and is not a directory.                                   *)
(***************************************************************************)
Stat(type, major, minor) ==
    [status |-> "ok", type |-> type, major |-> major, minor |-> minor]

Absent == [status |-> "ENOENT", type |-> "none", major |-> 0, minor |-> 0]
NotADirectory == [status |-> "ENOTDIR", type |-> "none", major |-> 0, minor |-> 0]

Reg == Stat("reg", 0, 0)
Dir == Stat("dir", 0, 0)
Wht == Stat("wht", 0, 0)
Chr00 == Stat("chr", 0, 0)
Chr01 == Stat("chr", 0, 1)
Chr10 == Stat("chr", 1, 0)

Entries == {Reg, Dir, Wht, Chr00, Chr01, Chr10}

TreePaths == {<<"etc">>, <<"etc", "app.conf">>}

WellFormed(tree) ==
    \A loc \in TreePaths :
        (Len(loc) > 1 /\ tree[loc] # Absent) =>
            tree[SubSeq(loc, 1, Len(loc) - 1)] = Dir

LayerTrees == {t \in [TreePaths -> Entries \cup {Absent}] : WellFormed(t)}

\* path.lstrip("/")
RECURSIVE LStrip(_, _)
LStrip(str, c) ==
    IF str # <<>> /\ Head(str) = c THEN LStrip(Tail(str), c) ELSE str

\* The names a relative path walks through: its non-empty pieces.
Components(rel) ==
    LET pieces == SelectSeq(Split(rel, "/"), LAMBDA x : x # <<>>)
    IN [i \in 1..Len(pieces) |-> pieces[i][1]]

RECURSIVE Walk(_, _, _)
Walk(tree, comps, k) ==
    LET loc == SubSeq(comps, 1, k)
        e == IF loc \in DOMAIN tree THEN tree[loc] ELSE Absent
    IN IF k = Len(comps) THEN e
       ELSE IF e = Absent THEN Absent
       ELSE IF e.type # "dir" THEN NotADirectory
       ELSE Walk(tree, comps, k + 1)

\* os.lstat(os.path.join(layer, path.lstrip("/")))
Lstat(tree, path) ==
    LET comps == Components(LStrip(path, "/"))
    IN IF comps = <<>> THEN Dir ELSE Walk(tree, comps, 1)

\* stat.S_ISWHT(mode) or (stat.S_ISCHR(mode) and major == 0 and minor == 0)
IsWhiteout(st) ==
    st.type = "wht" \/ (st.type = "chr" /\ st.major = 0 /\ st.minor = 0)

RECURSIVE CheckPathInLayers_WhiteoutContinues(_, _)
CheckPathInLayers_WhiteoutContinues(path, layers) ==
    IF layers = <<>> THEN "False"
    ELSE LET st == Lstat(Head(layers), path)
         IN IF st.status = "ENOENT" \/ (st.status = "ok" /\ IsWhiteout(st))
            THEN CheckPathInLayers_WhiteoutContinues(path, Tail(layers))
            ELSE IF st.status = "ENOTDIR" THEN "NotADirectoryError"
            ELSE "True"

\* The layer loop: "True", "False", or the exception that leaves the
\* function (only FileNotFoundError is caught).
RECURSIVE CheckPathInLayers(_, _)
CheckPathInLayers(path, layers) ==
    IF layers = <<>> THEN "False"
    ELSE LET st == Lstat(Head(layers), path)
         IN IF st.status = "ENOENT" THEN CheckPathInLayers(path, Tail(layers))
            ELSE IF st.status = "ENOTDIR" THEN "NotADirectoryError"
            ELSE IF IsWhiteout(st) THEN "False"
            ELSE "True"

PathConf == <<"/", "etc", "/", "app.conf">>
PathEtc == <<"/", "etc">>
PathRelConf == <<"etc", "/", "app.conf">>
PathDoubleSlash == <<"/", "/", "etc">>
PathRoot == <<"/">>

QueryPaths == {PathConf, PathEtc, PathRelConf, PathDoubleSlash, PathRoot}

QueryCall ==
    /\ q_out = "none"
    /\ q_out' = CheckPathInLayers(q_path, q_layers)
    /\ UNCHANGED <<q_path, q_layers>>
    /\ UNCHANGED <<pollVars, hist, readyVars, waitVars, helmVars, ensureVars>>

InitResolve ==
    /\ q_path \in QueryPaths
    /\ q_layers \in SeqsUpTo(LayerTrees, MaxLayers)
    /\ q_out = "none"
    /\ PollInit /\ hist = <<>>
    /\ ReadyIdle /\ WaitIdle /\ HelmIdle /\ EnsureIdle

NextResolve == QueryCall

SpecResolve == InitResolve /\ [][NextResolve]_vars

(***************************************************************************)
(* The reference result of the claims: the first layer that has an entry   *)
(* at the path decides, a whiteout there means absent.                     *)
(***************************************************************************)
LocationOf(path) == Components(LStrip(path, "/"))

EntryAt(tree, path) ==
    IF LocationOf(path) = <<>> THEN Dir
    ELSE IF LocationOf(path) \in DOMAIN tree THEN tree[LocationOf(path)]
    ELSE Absent

HasEntry(tree, path) == EntryAt(tree, path) # Absent

IsWhiteoutEntry(e) ==
    e.type = "wht" \/ (e.type = "chr" /\ e.major = 0 /\ e.minor = 0)

FirstWithEntry(path, layers) ==
    {m \in 1..Len(layers) :
        /\ HasEntry(layers[m], path)
        /\ \A h \in 1..(m - 1) : ~HasEntry(layers[h], path)}

Reference(path, layers) ==
    IF \E m \in FirstWithEntry(path, layers) :
           ~IsWhiteoutEntry(EntryAt(layers[m], path))
    THEN "True" ELSE "False"

(***************************************************************************)
(* C3: for every path and every layer stack, the empty one included,       *)
(* _check_path_in_layers gives the reference result.                       *)
(***************************************************************************)
C3_EqualsReference ==
    q_out # "none" => q_out = Reference(q_path, q_layers)

\* The same statement where no lstat raised NotADirectoryError.
C3_UnlessNotADirectory ==
    (q_out # "none" /\ q_out # "NotADirectoryError") =>
        q_out = Reference(q_path, q_layers)

WhiteoutAt(i) ==
    /\ i \in 1..Len(q_layers)
    /\ HasEntry(q_layers[i], q_path)
    /\ IsWhiteoutEntry(EntryAt(q_layers[i], q_path))

(***************************************************************************)
(* C4, as claimed: a whiteout entry for the path in some layer i means the *)
(* path is not reported present, whatever the other layers hold.           *)
(***************************************************************************)
C4_WhiteoutAnywhereMeansAbsent ==
    q_out # "none" =>
        \A i \in 1..Len(q_layers) : WhiteoutAt(i) => q_out # "True"

(***************************************************************************)
(* C4, amended: a whiteout entry for the path in layer i, with no entry    *)
(* for the path in any layer above i, means the path is never reported     *)
(* present, whatever the layers j > i hold; and the result is false        *)
(* whenever lstat found nothing (ENOENT) in every layer above i.           *)
(***************************************************************************)
C4_FirstEntryWhiteoutMeansAbsent ==
    q_out # "none" =>
        \A i \in 1..Len(q_layers) :
            /\ (WhiteoutAt(i) /\ \A h \in 1..(i - 1) : ~HasEntry(q_layers[h], q_path))
                  => q_out # "True"
            /\ (WhiteoutAt(i) /\ \A h \in 1..(i - 1) :
                                    Lstat(q_layers[h], q_path) = Absent)
                  => q_out = "False"

C4_Witness ==
    /\ q_out = "False"
    /\ q_path = PathConf
    /\ Len(q_layers) = 2
    /\ q_layers[1] = [loc \in TreePaths |-> IF loc = <<"etc">> THEN Dir ELSE Chr00]
    /\ q_layers[2] = [loc \in TreePaths |-> IF loc = <<"etc">> THEN Dir ELSE Reg]
    /\ WhiteoutAt(1)

(***************************************************************************)
(* ensure_image_contains_paths_bare(image, paths).                         *)
(*                                                                         *)
(* e_driver and e_lower are what `docker inspect` reports for the image:   *)
(* GraphDriver (or its absence) and Data.LowerDir (or its absence).  e_fs  *)
(* is the content of the layer directories, read when the stack is built.  *)
(***************************************************************************)
NoError == [kind |-> "none", msg |-> "", path |-> <<>>]
Raised(kind, msg, path) == [kind |-> kind, msg |-> msg, path |-> path]

Drivers == {"missing", "overlay2", "overlayfs", "btrfs"}

DriverFailure_AnyOverlay(driver) ==
    IF driver = "missing" THEN "GraphDriverMissing"
    ELSE IF driver \notin {"overlay2", "overlayfs"} THEN "UnsupportedGraphDriver"
    ELSE "none"

\* The two asserts on the inspected GraphDriver (lines 86-92).
DriverFailure(driver) ==
    IF driver = "missing" THEN "GraphDriverMissing"
    ELSE IF driver # "overlay2" THEN "UnsupportedGraphDriver"
    ELSE "none"

UpperDir == <<"/upper">>
LowerName(i) == <<"/lower", ToString(i)>>

\* LowerDir as docker reports it: the lower directories joined with ":".
LowerDirs == {Join([i \in 1..k |-> LowerName(i)], ":") : k \in 1..MaxLayers}

\* layers = [UpperDir] + LowerDir.split(":")
BuildLayers(lower) == <<UpperDir>> \o Split(lower, ":")

TreeOf(etc, conf) ==
    [loc \in TreePaths |-> IF loc = <<"etc">> THEN etc ELSE conf]

EnsureTrees == {TreeOf(Absent, Absent), TreeOf(Reg, Absent), TreeOf(Chr00, Absent),
                TreeOf(Dir, Absent), TreeOf(Dir, Reg), TreeOf(Dir, Chr00)}

EnsurePaths == {PathConf, PathEtc}

Range(f) == {f[x] : x \in DOMAIN f}

EnsureStack == [j \in 1..Len(e_layers) |-> e_fs[e_layers[j]]]

\* `if not paths: return`, then `docker pull` with check=True.
EnsurePull ==
    /\ e_pc = "start"
    /\ \/ /\ e_paths = <<>>
          /\ e_pc' = "returned"
          /\ UNCHANGED <<e_pulls, e_error>>
       \/ /\ e_paths # <<>>
          /\ e_pulls' = e_pulls + 1
          /\ \/ e_pc' = "inspect" /\ UNCHANGED e_error
             \/ /\ e_pc' = "raised"
                /\ e_error' = Raised("CalledProcessError", "docker pull", <<>>)
    /\ UNCHANGED <<e_paths, e_driver, e_lower, e_layers, e_fs, e_i, e_checked,
                   e_inspects>>
    /\ UNCHANGED <<pollVars, hist, readyVars, waitVars, helmVars, queryVars>>

\* `docker inspect` with check=True, the asserts and the layer list.
EnsureInspect ==
    /\ e_pc = "inspect"
    /\ e_inspects' = e_inspects + 1
    /\ \/ /\ e_pc' = "raised"
          /\ e_error' = Raised("CalledProcessError", "docker inspect", <<>>)
          /\ UNCHANGED <<e_layers, e_fs, e_i>>
       \/ /\ DriverFailure(e_driver) # "none"
          /\ e_pc' = "raised"
          /\ e_error' = Raised("AssertionError", DriverFailure(e_driver), <<>>)
          /\ UNCHANGED <<e_layers, e_fs, e_i>>
       \/ /\ DriverFailure(e_driver) = "none"
          /\ ~e_lower.given
          /\ e_pc' = "raised"
          /\ e_error' = Raised("KeyError", "LowerDir", <<>>)
          /\ UNCHANGED <<e_layers, e_fs, e_i>>
       \/ /\ DriverFailure(e_driver) = "none"
          /\ e_lower.given
          /\ e_layers' = BuildLayers(e_lower.v)
          /\ e_fs' \in [Range(BuildLayers(e_lower.v)) -> EnsureTrees]
          /\ e_i' = 1
          /\ e_pc' = "loop"
          /\ UNCHANGED e_error
    /\ UNCHANGED <<e_paths, e_driver, e_lower, e_checked, e_pulls>>
    /\ UNCHANGED <<pollVars, hist, readyVars, waitVars, helmVars, queryVars>>

\* One turn of `for path in paths: assert _check_path_in_layers(...)`.
EnsureCheckPath ==
    /\ e_pc = "loop"
    /\ LET path == e_paths[e_i]
           found == CheckPathInLayers(path, EnsureStack)
       IN /\ e_checked' = Append(e_checked, path)
          /\ \/ /\ found = "True"
                /\ e_i' = e_i + 1
                /\ e_pc' = IF e_i = Len(e_paths) THEN "returned" ELSE "loop"
                /\ UNCHANGED e_error
             \/ /\ found = "False"
                /\ e_pc' = "raised"
                /\ e_error' = Raised("AssertionError", "ExpectedPathToExist", path)
                /\ UNCHANGED e_i
             \/ /\ found = "NotADirectoryError"
                /\ e_pc' = "raised"
                /\ e_error' = Raised("NotADirectoryError", "lstat", <<>>)
                /\ UNCHANGED e_i
    /\ UNCHANGED <<e_paths, e_driver, e_lower, e_layers, e_fs, e_pulls, e_inspects>>
    /\ UNCHANGED <<pollVars, hist, readyVars, waitVars, helmVars, queryVars>>

InitEnsure ==
    /\ e_pc = "start"
    /\ e_paths \in SeqsUpTo(EnsurePaths, MaxPaths)
    /\ e_driver \in Drivers
    /\ e_lower \in {NoneArg} \cup {Some(l) : l \in LowerDirs}
    /\ e_layers = <<>>
    /\ e_fs = <<>>
    /\ e_i = 0
    /\ e_checked = <<>>
    /\ e_error = NoError
    /\ e_pulls = 0
    /\ e_inspects = 0
    /\ PollInit /\ hist = <<>>
    /\ ReadyIdle /\ WaitIdle /\ HelmIdle /\ QueryIdle

NextEnsure == EnsurePull \/ EnsureInspect \/ EnsureCheckPath

SpecEnsure == InitEnsure /\ [][NextEnsure]_vars

EnsureLoopEnded == e_layers # <<>> /\ e_pc \in {"returned", "raised"}

AbsentIndexes ==
    {f \in 1..Len(e_paths) : Reference(e_paths[f], EnsureStack) = "False"}

FirstAbsent == CHOOSE f \in AbsentIndexes : \A g \in AbsentIndexes : f <= g

PathLoopAsClaimed ==
    /\ e_checked = SubSeq(e_paths, 1, Len(e_checked))
    /\ EnsureLoopEnded =>
          IF AbsentIndexes = {}
          THEN e_pc = "returned" /\ e_checked = e_paths
          ELSE /\ e_pc = "raised"
               /\ e_error = Raised("AssertionError", "ExpectedPathToExist",
                                   e_paths[FirstAbsent])
               /\ e_checked = SubSeq(e_paths, 1, FirstAbsent)

(***************************************************************************)
(* C5: the path loop resolves the paths in the caller's order; it succeeds *)
(* iff every path resolves to present, and otherwise fails at the first    *)
(* path that resolves to absent, naming exactly that path, with no later   *)
(* path resolved.  "Resolves" is the reference result of C3.               *)
(***************************************************************************)
C5_FailsFastOnFirstAbsentPath == e_layers # <<>> => PathLoopAsClaimed

\* The same statement where no lstat raised NotADirectoryError.
C5_UnlessNotADirectory ==
    (e_layers # <<>> /\ e_error.kind # "NotADirectoryError") => PathLoopAsClaimed

BadDriver == e_driver # "overlay2"

EnsureEnded == e_pc \in {"returned", "raised"}

DriverFailureRaised ==
    /\ e_pc = "raised"
    /\ e_error.kind = "AssertionError"
    /\ e_error.msg \in {"GraphDriverMissing", "UnsupportedGraphDriver"}
    /\ e_pulls = 1
    /\ e_inspects = 1
    /\ e_layers = <<>>
    /\ e_checked = <<>>

(***************************************************************************)
(* C6, as claimed: for an image whose graph driver is missing or not       *)
(* overlay2 and any list of paths, a call in which no docker command       *)
(* failed ends in the unsupported-driver failure after one inspect, with   *)
(* no layer stack built and no path resolved.                              *)
(***************************************************************************)
C6_BadDriverAlwaysFatal ==
    (BadDriver /\ EnsureEnded /\ e_error.kind # "CalledProcessError") =>
        DriverFailureRaised

(***************************************************************************)
(* C6, amended: the same for any non-empty list of paths (an empty list    *)
(* returns at once, before any pull or inspect); and in no state of a call *)
(* on such an image is a layer stack built, a path resolved or the inspect *)
(* step run more than once.                                                *)
(***************************************************************************)
C6_BadDriverFatalForNonEmptyPaths ==
    BadDriver =>
        /\ (e_paths # <<>> /\ EnsureEnded /\ e_error.kind # "CalledProcessError")
              => DriverFailureRaised
        /\ (e_paths = <<>> /\ EnsureEnded) =>
              (e_pc = "returned" /\ e_pulls = 0 /\ e_inspects = 0)
        /\ e_layers = <<>>
        /\ e_checked = <<>>
        /\ e_inspects <= 1

C6_Witness ==
    /\ e_driver = "overlayfs"
    /\ e_paths = <<PathConf, PathEtc>>
    /\ e_lower.given
    /\ DriverFailureRaised
    /\ e_error.msg = "UnsupportedGraphDriver"

====
